---- MODULE Spec2Model ----
(***************************************************************************)
(* tBNB faucet MCP server (src/python/faucet-mcp/mcp_server/main.py).      *)
(*                                                                         *)
(* One HTTP request is one asyncio task.  A task runs without interruption *)
(* between two awaits, so every action below is the code between two       *)
(* awaits (gateway and orchestrator) or between two chain RPCs (the worker *)
(* thread that runs _send_tbnb).  The verification authority and the chain *)
(* are the environment: what they answer is chosen with \E.                *)
(***************************************************************************)
EXTENDS Integers, FiniteSets, Sequences, TLC

(***************************************************************************)
(* Bounds                                                                  *)
(***************************************************************************)
NumReqs == 2
MaxBaseLen == 2

Reqs == 1..NumReqs

(***************************************************************************)
(* Program constants                                                       *)
(***************************************************************************)
PARSE_ERROR == -32700
METHOD_NOT_FOUND == -32601
INVALID_PARAMS == -32602
SERVER_ERROR == -32000

HTTP_OK == 200
HTTP_FORBIDDEN == 403
HTTP_SERVER_ERROR == 500
HTTP_UNPROCESSABLE == 422

\* Decimal amounts are counted in units of 10^-19 ether, one decimal digit
\* below a wei, so that w3.to_wei(amount, "ether") is a real conversion.
SubWeiPerWei == 10

AmountChoices == {-30, 0, 3, 30}

NoHash == <<>>
NoNonce == -1
NoReceipt == -1
NoId == 0

(***************************************************************************)
(* Inbound bodies                                                          *)
(***************************************************************************)
Wallets == {"absent", "empty", "bad", "good"}
Githubs == {"absent", "empty", "good"}

Builders == {"absent", "given"}

NoArgs ==
    [kind |-> "absent", wallet |-> "absent", github |-> "absent",
     builder |-> "absent"]

NullArgs ==
    [kind |-> "null", wallet |-> "absent", github |-> "absent",
     builder |-> "absent"]

\* The `arguments` member: missing, JSON null, or an object.
Arguments ==
    {NoArgs, NullArgs}
    \cup [kind : {"dict"}, wallet : Wallets, github : Githubs,
          builder : Builders]

\* A JSON object sent to /mcp/v1/tools/call.  `method` is the envelope's
\* method member; `envOk` says whether the members jsonrpc, id and params
\* have the types JSONRPCRequest declares; `where` says whether name and
\* arguments sit under params (JSON-RPC form) or at top level (direct form).
McpObjects ==
    [path : {"mcp"}, kind : {"object"},
     method : {"absent", "tools/call", "tools/list"},
     envOk : BOOLEAN, where : {"params", "top"},
     name : {"absent", "empty", "issue_tbnb", "other_tool"},
     args : Arguments]

McpJunk(k) ==
    [path |-> "mcp", kind |-> k, method |-> "absent", envOk |-> FALSE,
     where |-> "top", name |-> "absent", args |-> NoArgs]

McpBodies == McpObjects \cup {McpJunk("unparseable"), McpJunk("nonobject")}

\* A JSON object sent to /requests; FastAPI validates it as a
\* DisbursementRequest before request_tbnb runs.
RestBodies ==
    [path : {"rest"}, kind : {"object"}, method : {"absent"}, envOk : {TRUE},
     where : {"top"}, name : {"absent"},
     args : [kind : {"dict"}, wallet : Wallets, github : Githubs,
             builder : Builders]]

\* A body sent to /mcp/v1/tools.
ListBodies ==
    [path : {"list"}, kind : {"object"},
     method : {"absent", "tools/call", "tools/list"}, envOk : BOOLEAN,
     where : {"top"}, name : {"absent"}, args : {NoArgs}]
    \cup [path : {"list"}, kind : {"unparseable", "nonobject"},
          method : {"absent"}, envOk : {FALSE}, where : {"top"},
          name : {"absent"}, args : {NoArgs}]

ListRequest ==
    [path |-> "list", kind |-> "object", method |-> "tools/list",
     envOk |-> TRUE, where |-> "top", name |-> "absent", args |-> NoArgs]

AllBodies == McpBodies \cup RestBodies \cup ListBodies

McpIssue(w) ==
    [path |-> "mcp", kind |-> "object", method |-> "tools/call",
     envOk |-> TRUE, where |-> "params", name |-> "issue_tbnb",
     args |-> [kind |-> "dict", wallet |-> w, github |-> "good",
               builder |-> "given"]]

RestIssue(w) ==
    [path |-> "rest", kind |-> "object", method |-> "absent", envOk |-> TRUE,
     where |-> "top", name |-> "absent",
     args |-> [kind |-> "dict", wallet |-> w, github |-> "good",
               builder |-> "given"]]

\* The bodies used when several requests are in flight together.
CoreBodies == {McpIssue("good"), RestIssue("good"), ListRequest}

NoBody == McpJunk("none")


(***************************************************************************)
(* State                                                                   *)
(***************************************************************************)
VARIABLES
    VERIFICATION_URL, \* the configured URL, fixed at process start
    record_url,     \* r -> the URL record_payout of r posted to
    amount,         \* DEFAULT_PAYOUT_AMOUNT, fixed at process start
    body,           \* r -> the inbound body of request r
    pc,             \* r -> where the task of request r stands
    verification,   \* r -> what verify_wallet returned
    request_id,     \* r -> the request_id minted for r, NoId before
    nonce,          \* r -> the local `nonce` of r's _send_tbnb call
    tx_hash,        \* r -> the hash send_raw_transaction returned to r
    receipt,        \* r -> the receipt status _send_tbnb observed
    recorded,       \* r -> how the record_payout call of r ended
    calls,          \* r -> how often r invoked each external operation
    outcome,        \* r -> the orchestrator's outcome for r
    response,       \* r -> the response written for r
    txCount,        \* chain: treasury transactions mined so far
    chainTx         \* chain: r -> the transaction r broadcast

vars ==
    <<VERIFICATION_URL, record_url, amount, body, pc, verification, request_id, nonce, tx_hash, receipt,
      recorded, calls, outcome, response, txCount, chainTx>>

NoVerification ==
    [verified |-> "absent", reason |-> "absent", github_user_id |-> 0,
     fault |-> "none"]

\* The JSON objects the authority answers with.  `verified` and `reason`
\* may be missing; a missing or falsy github_user_id is 0.
Verdicts ==
    [verified : {"true"}, reason : {"absent"}, github_user_id : {0, 42},
     fault : {"none"}]
    \cup [verified : {"false", "absent"},
          reason : {"absent", "account too new"}, github_user_id : {0},
          fault : {"none"}]

\* What the POST to VERIFICATION_URL can end in besides a JSON object.
VerifyFaults == {"transport", "http_status", "undecodable", "not_an_object"}

\* The call failed: there is no JSON object to look at.
Faulted(f) ==
    [verified |-> "absent", reason |-> "absent", github_user_id |-> 0,
     fault |-> f]

NoCalls ==
    [verify |-> 0, nonce |-> 0, gas |-> 0, sign |-> 0, send |-> 0,
     wait |-> 0, record |-> 0]

NoTx == [status |-> "none", nonce |-> NoNonce]

NoResponse ==
    [kind |-> "none", http |-> 0, id |-> "none", code |-> 0,
     isError |-> "none", status |-> "none", tx_hash |-> NoHash,
     data |-> "none", reason |-> "none"]

JsonRpcError(id, code, data) ==
    [kind |-> "error", http |-> HTTP_OK, id |-> id, code |-> code,
     isError |-> "none", status |-> "none", tx_hash |-> NoHash,
     data |-> data, reason |-> "none"]

JsonRpcResult(id, isError, status, hash, data, reason) ==
    [kind |-> "result", http |-> HTTP_OK, id |-> id, code |-> 0,
     isError |-> isError, status |-> status, tx_hash |-> hash,
     data |-> data, reason |-> reason]

\* The bare {"tools": [...]} object, outside any JSON-RPC envelope.
PlainTools ==
    [kind |-> "tools", http |-> HTTP_OK, id |-> "none", code |-> 0,
     isError |-> "none", status |-> "none", tx_hash |-> NoHash,
     data |-> "tools", reason |-> "none"]

HttpResponse(http, status, hash, data, reason) ==
    [kind |-> "rest", http |-> http, id |-> "none", code |-> 0,
     isError |-> "none", status |-> status, tx_hash |-> hash,
     data |-> data, reason |-> reason]

\* A URL is the sequence of its characters.  The default of VERIFICATION_SERVICE_URL is DefaultBase followed by
\* "/verify".
DefaultBase ==
    <<"h", "t", "t", "p", ":", "/", "/", "l", "o", "c", "a", "l", "h", "o",
      "s", "t", ":", "8", "0", "8", "0">>

VerifySuffix == <<"/", "v", "e", "r", "i", "f", "y">>

RecordSuffix ==
    <<"/", "r", "e", "c", "o", "r", "d", "-", "p", "a", "y", "o", "u", "t">>

NoUrl == <<>>

\* The configured bases: a scheme and a host name of a few characters.
Scheme == <<"h", "t", "t", "p", ":", "/", "/">>

BaseChars == {"a", "0", "r"}

RECURSIVE TextsUpTo(_)
TextsUpTo(n) ==
    IF n = 0 THEN {<<>>}
    ELSE LET shorter == TextsUpTo(n - 1)
         IN  shorter \cup {Append(s, c) : s \in shorter, c \in BaseChars}

Bases ==
    {Scheme \o host : host \in TextsUpTo(MaxBaseLen) \ {<<>>}}
    \cup {DefaultBase}

\* str.rstrip(chars): drop trailing characters while they occur in chars.
RECURSIVE rstrip(_, _)
rstrip(s, chars) ==
    IF s # <<>> /\ s[Len(s)] \in {chars[i] : i \in DOMAIN chars}
    THEN rstrip(SubSeq(s, 1, Len(s) - 1), chars)
    ELSE s

\* f"{VERIFICATION_URL.rstrip('/verify')}/record-payout"
RecordPayoutUrl(url) == rstrip(url, VerifySuffix) \o RecordSuffix

InitConfigured(bodies, bases) ==
    /\ VERIFICATION_URL \in {b \o VerifySuffix : b \in bases}
    /\ record_url = [r \in Reqs |-> NoUrl]
    /\ amount \in AmountChoices
    /\ body \in bodies
    /\ pc = [r \in Reqs |-> IF body[r] = NoBody THEN "absent" ELSE "received"]
    /\ verification = [r \in Reqs |-> NoVerification]
    /\ request_id = [r \in Reqs |-> NoId]
    /\ nonce = [r \in Reqs |-> NoNonce]
    /\ tx_hash = [r \in Reqs |-> NoHash]
    /\ receipt = [r \in Reqs |-> NoReceipt]
    /\ recorded = [r \in Reqs |-> "none"]
    /\ calls = [r \in Reqs |-> NoCalls]
    /\ outcome = [r \in Reqs |-> "none"]
    /\ response = [r \in Reqs |-> NoResponse]
    /\ txCount = 0
    /\ chainTx = [r \in Reqs |-> NoTx]

\* The endpoints in a fixed order; swapping two requests only swaps
\* their labels, so the requests are listed in this order.
PathOrder(p) == CASE p = "mcp" -> 1 [] p = "rest" -> 2 [] OTHER -> 3

InFlight ==
    {bs \in [Reqs -> CoreBodies] :
        \A r, q \in Reqs :
            r < q => PathOrder(bs[r].path) <= PathOrder(bs[q].path)}

InitWith(bodies) == InitConfigured(bodies, {DefaultBase})

\* Several requests in flight together, each a well-formed request.
Init == InitWith(InFlight)

\* One request with any body; the other tasks never start.
InitGateway ==
    InitWith({[r \in Reqs |-> IF r = 1 THEN b ELSE NoBody] : b \in AllBodies})


(***************************************************************************)
(* Exceptions and the encoding of outcomes                                 *)
(***************************************************************************)
\* `except ValueError` also catches the subclasses of ValueError:
\* json.JSONDecodeError (raised by resp.json()) is one.
IsValueError(exc) == exc \in {"ValueError", "JSONDecodeError"}

VerifyException(f) ==
    CASE f = "transport" -> "TransportError"
      [] f = "http_status" -> "HTTPStatusError"
      [] f = "undecodable" -> "JSONDecodeError"
      [] f = "not_an_object" -> "AttributeError"

\* JSONRPCRequest(**body): method is required, the other members are typed.
JSONRPCRequestValid(b) == b.method # "absent" /\ b.envOk

\* The id echoed in the response.
ResponseId(b) ==
    IF JSONRPCRequestValid(b) THEN "jsonrpc_req.id" ELSE "body.id or uuid4"

\* mcp_call_tool: process_tbnb_request returned `result`.
McpEncodeReturn(id, hash) ==
    JsonRpcResult(id, "false", "approved", hash, "approved", "none")

\* mcp_call_tool: process_tbnb_request raised `exc`.
McpEncodeRaise(id, exc, data, reason) ==
    IF IsValueError(exc)
    THEN JsonRpcResult(id, "true", "none", NoHash, data, reason)
    ELSE JsonRpcError(id, SERVER_ERROR, data)

\* The exception that leaves the payout block of process_tbnb_request.
WrapPayoutErrorAsIs(exc) == exc

WrapPayoutError(exc) == "RuntimeError"

\* verification.get("reason", "Unknown verification failure")
ReasonOf(v) ==
    IF v.reason = "absent" THEN "Unknown verification failure" ELSE v.reason

ReceiptFailedNever(status) == FALSE

\* receipt.status != 1
ReceiptFailed(status) == status # 1

NotVerifiedNever(v) == FALSE

\* not verification.get("verified")
NotVerified(v) == v.verified # "true"

MissingRequiredWalletOnly(a) == a.wallet \in {"absent", "empty"}

\* not wallet_address or not github_username
MissingRequired(a) ==
    a.wallet \in {"absent", "empty"} \/ a.github \in {"absent", "empty"}

\* Web3.to_checksum_address(wallet_address) raises on anything else.
IsAddressUnchecked(w) == TRUE

IsAddress(w) == w = "good"

\* w3.to_wei(amount, "ether"): scale to wei, drop the fraction.  (For a
\* negative amount the library may raise by itself; like the check that
\* follows, that is a ValueError before any chain call.)
to_wei(a) ==
    IF a >= 0 THEN a \div SubWeiPerWei ELSE 0 - ((0 - a) \div SubWeiPerWei)

\* The hash of a transaction is a function of its signed bytes.  Within
\* a run two transactions differ in the request that first broadcast them
\* or in their nonce; a request that signs the same bytes as another one
\* gets the same hash.
TxHash(first, n) == <<first, n>>

\* The request whose broadcast put the transaction with hash h on the chain.
FirstSender(h) == h[1]


(***************************************************************************)
(* Protocol Gateway: /mcp/v1/tools/call                                    *)
(***************************************************************************)
Respond(resp) == [route |-> "respond", resp |-> resp, arguments |-> NoArgs]

Process(a) == [route |-> "process", resp |-> NoResponse, arguments |-> a]

ParseFailureEchoingId ==
    Respond(JsonRpcError("body.id or uuid4", PARSE_ERROR, "Parse error"))

\* The outermost `except Exception` of mcp_call_tool.
ParseFailure == Respond(JsonRpcError("None", PARSE_ERROR, "Parse error"))

ExecuteToolAnyName(tool_name, arguments, id) ==
    IF tool_name \in {"absent", "empty"}
    THEN Respond(JsonRpcError(id, INVALID_PARAMS, "Missing tool name"))
    ELSE Process(arguments)

\* `if not tool_name` ... `if tool_name == "issue_tbnb"` ... `else`
ExecuteTool(tool_name, arguments, id) ==
    IF tool_name \in {"absent", "empty"}
    THEN Respond(JsonRpcError(id, INVALID_PARAMS, "Missing tool name"))
    ELSE IF tool_name = "issue_tbnb"
    THEN Process(arguments)
    ELSE Respond(JsonRpcError(id, METHOD_NOT_FOUND, "Unknown tool"))

\* `not jsonrpc_req.params`: params is missing, null or {}.
ParamsEmpty(b) ==
    b.where # "params" \/ (b.name = "absent" /\ b.args.kind = "absent")

DispatchNoMethodCheck(b) ==
    IF b.kind # "object"
    THEN ParseFailure
    ELSE IF JSONRPCRequestValid(b)
    THEN IF ParamsEmpty(b)
         THEN Respond(JsonRpcError(ResponseId(b), INVALID_PARAMS,
                                   "Missing params"))
         ELSE ExecuteTool(b.name, b.args, ResponseId(b))
    ELSE IF b.where = "top"
    THEN ExecuteTool(b.name, b.args, ResponseId(b))
    ELSE ExecuteTool("absent", NoArgs, ResponseId(b))

\* The body up to the call of process_tbnb_request.
Dispatch(b) ==
    IF b.kind # "object"
    THEN ParseFailure
    ELSE IF JSONRPCRequestValid(b)
    THEN IF b.method # "tools/call"
         THEN Respond(JsonRpcError(ResponseId(b), METHOD_NOT_FOUND,
                                   "Unknown method"))
         ELSE IF ParamsEmpty(b)
         THEN Respond(JsonRpcError(ResponseId(b), INVALID_PARAMS,
                                   "Missing params"))
         ELSE ExecuteTool(b.name, b.args, ResponseId(b))
    ELSE IF b.where = "top"
    THEN ExecuteTool(b.name, b.args, ResponseId(b))
    ELSE ExecuteTool("absent", NoArgs, ResponseId(b))

Finish(r, resp, out) ==
    /\ pc' = [pc EXCEPT ![r] = "done"]
    /\ response' = [response EXCEPT ![r] = resp]
    /\ outcome' = [outcome EXCEPT ![r] = out]

CallVerify(r) ==
    /\ calls' = [calls EXCEPT ![r].verify = @ + 1]
    /\ pc' = [pc EXCEPT ![r] = "verify_wallet"]
    /\ UNCHANGED <<response, outcome>>

\* mcp_call_tool up to its first await on the network: the body is parsed
\* and dispatched, and process_tbnb_request runs up to verify_wallet.
mcp_call_tool(r) ==
    /\ pc[r] = "received"
    /\ body[r].path = "mcp"
    /\ LET b == body[r]
           d == Dispatch(b)
           a == d.arguments
       IN  IF d.route = "respond"
           THEN Finish(r, d.resp, "none") /\ UNCHANGED calls
           ELSE IF a.kind = "null"
           THEN /\ Finish(r, McpEncodeRaise(ResponseId(b), "AttributeError",
                              "arguments is None", "none"), "Error")
                /\ UNCHANGED calls
           ELSE IF MissingRequired(a)
           THEN /\ Finish(r, McpEncodeRaise(ResponseId(b), "ValueError",
                              "required", "none"), "Rejected")
                /\ UNCHANGED calls
           ELSE CallVerify(r)
    /\ UNCHANGED tx_hash
    /\ UNCHANGED <<VERIFICATION_URL, record_url>>
    /\ UNCHANGED <<amount, body, verification, request_id, nonce, receipt,
                   recorded, txCount, chainTx>>

(***************************************************************************)
(* Protocol Gateway: /mcp/v1/tools                                         *)
(***************************************************************************)
\* The response of mcp_list_tools: any exception while the body is read or
\* validated ends in the bare tools object.
ListTools(b) ==
    IF b.kind # "object" \/ ~JSONRPCRequestValid(b)
    THEN PlainTools
    ELSE IF b.method # "tools/list"
    THEN JsonRpcError("jsonrpc_req.id", METHOD_NOT_FOUND, "Unknown method")
    ELSE JsonRpcResult("jsonrpc_req.id", "none", "none", NoHash, "tools",
                       "none")

mcp_list_tools(r) ==
    /\ pc[r] = "received"
    /\ body[r].path = "list"
    /\ Finish(r, ListTools(body[r]), "none")
    /\ UNCHANGED tx_hash
    /\ UNCHANGED <<VERIFICATION_URL, record_url>>
    /\ UNCHANGED <<amount, body, verification, request_id, nonce, receipt,
                   recorded, calls, txCount, chainTx>>

(***************************************************************************)
(* Legacy REST endpoint: /requests                                         *)
(***************************************************************************)
\* builder_id, wallet_address and github_username are required strings
\* (an empty string is a string); channel has a default.
DisbursementRequestValid(a) ==
    a.builder # "absent" /\ a.wallet # "absent" /\ a.github # "absent"

\* A body that is no DisbursementRequest is answered by FastAPI with 422
\* and request_tbnb does not run; otherwise request_tbnb runs up to
\* verify_wallet.
request_tbnb(r) ==
    /\ pc[r] = "received"
    /\ body[r].path = "rest"
    /\ IF DisbursementRequestValid(body[r].args)
       THEN CallVerify(r)
       ELSE /\ Finish(r, HttpResponse(HTTP_UNPROCESSABLE, "none", NoHash,
                                      "validation error", "none"), "none")
            /\ UNCHANGED calls
    /\ UNCHANGED tx_hash
    /\ UNCHANGED <<VERIFICATION_URL, record_url>>
    /\ UNCHANGED <<amount, body, verification, request_id, nonce, receipt,
                   recorded, txCount, chainTx>>

(***************************************************************************)
(* Payout Orchestrator                                                     *)
(***************************************************************************)
\* str(uuid.uuid4()): a value no other call returns.
uuid4(r) == r

PayoutRetried(r, exc, data) ==
    /\ pc' = [pc EXCEPT ![r] = "_send_tbnb"]
    /\ UNCHANGED <<response, outcome>>

RestPayoutErrorAsForbidden(data) ==
    HttpResponse(HTTP_FORBIDDEN, "none", NoHash, data, "none")

\* request_tbnb: raise HTTPException(status_code=500, detail=str(exc))
RestPayoutError(data) ==
    HttpResponse(HTTP_SERVER_ERROR, "none", NoHash, data, "none")

\* `except Exception as exc` around the payout block.
PayoutFailed(r, exc, data) ==
    IF body[r].path = "mcp"
    THEN Finish(r, McpEncodeRaise(ResponseId(body[r]), WrapPayoutError(exc),
                                  data, "none"), "Failed")
    ELSE Finish(r, RestPayoutError(data), "Failed")

\* The approved result, with the hash _send_tbnb returned.
Approved(r) ==
    IF body[r].path = "mcp"
    THEN Finish(r, McpEncodeReturn(ResponseId(body[r]), tx_hash[r]),
                "Approved")
    ELSE Finish(r, HttpResponse(HTTP_OK, "approved", tx_hash[r], "approved",
                                "none"), "Approved")

\* The verification call ends; the handler runs on to initiate_payout.
verify_wallet(r) ==
    /\ pc[r] = "verify_wallet"
    /\ \E v \in Verdicts \cup {Faulted(f) : f \in VerifyFaults} :
          /\ verification' = [verification EXCEPT ![r] = v]
          /\ IF v.fault # "none"
             THEN /\ IF body[r].path = "mcp"
                     THEN Finish(r, McpEncodeRaise(ResponseId(body[r]),
                                     VerifyException(v.fault),
                                     "verify_wallet raised", "none"), "Error")
                     ELSE Finish(r, HttpResponse(HTTP_SERVER_ERROR, "none",
                                     NoHash, "Internal Server Error", "none"),
                                 "Error")
                  /\ UNCHANGED request_id
             ELSE IF NotVerified(v)
             THEN /\ IF body[r].path = "mcp"
                     THEN Finish(r, McpEncodeRaise(ResponseId(body[r]),
                                     "ValueError", "Verification failed",
                                     ReasonOf(v)), "Rejected")
                     ELSE Finish(r, HttpResponse(HTTP_FORBIDDEN, "none",
                                     NoHash, "Verification failed",
                                     ReasonOf(v)), "Rejected")
                  /\ UNCHANGED request_id
             ELSE /\ request_id' = [request_id EXCEPT ![r] = uuid4(r)]
                  /\ pc' = [pc EXCEPT ![r] = "_send_tbnb"]
                  /\ UNCHANGED <<response, outcome>>
    /\ UNCHANGED tx_hash
    /\ UNCHANGED <<VERIFICATION_URL, record_url>>
    /\ UNCHANGED <<amount, body, nonce, receipt, recorded, calls, txCount,
                   chainTx>>


(***************************************************************************)
(* Transaction Engine: _send_tbnb on the worker thread                     *)
(***************************************************************************)
\* The nonce read as it would be under a lock held from the nonce read to
\* the broadcast.
get_transaction_count_locked(r) ==
    /\ pc[r] = "_send_tbnb"
    /\ \A q \in Reqs : pc[q] \notin {"gas_price", "send_raw_transaction"}
    /\ calls' = [calls EXCEPT ![r].nonce = @ + 1]
    /\ nonce' = [nonce EXCEPT ![r] = txCount]
    /\ pc' = [pc EXCEPT ![r] = "gas_price"]
    /\ UNCHANGED <<VERIFICATION_URL, record_url>>
    /\ UNCHANGED <<VERIFICATION_URL, record_url>>
    /\ UNCHANGED <<amount, body, verification, request_id, tx_hash, receipt,
                   recorded, outcome, response, txCount, chainTx>>

\* Lines up to the nonce read: the address and the amount are checked, then
\* the treasury's transaction count is read from the chain.
get_transaction_count(r) ==
    /\ pc[r] = "_send_tbnb"
    /\ IF ~IsAddress(body[r].args.wallet)
       THEN /\ PayoutFailed(r, "ValueError", "invalid address")
            /\ UNCHANGED <<nonce, calls>>
       ELSE IF to_wei(amount) <= 0
       THEN /\ PayoutFailed(r, "ValueError", "amount must be positive")
            /\ UNCHANGED <<nonce, calls>>
       ELSE \E ok \in BOOLEAN :
               /\ calls' = [calls EXCEPT ![r].nonce = @ + 1]
               /\ IF ok
                  THEN /\ nonce' = [nonce EXCEPT ![r] = txCount]
                       /\ pc' = [pc EXCEPT ![r] = "gas_price"]
                       /\ UNCHANGED <<response, outcome>>
                  ELSE /\ PayoutFailed(r, "ConnectionError", "nonce read")
                       /\ UNCHANGED nonce
    /\ UNCHANGED tx_hash
    /\ UNCHANGED <<VERIFICATION_URL, record_url>>
    /\ UNCHANGED <<amount, body, verification, request_id, receipt,
                   recorded, txCount, chainTx>>

gas_price(r) ==
    /\ pc[r] = "gas_price"
    /\ calls' = [calls EXCEPT ![r].gas = @ + 1]
    /\ \E ok \in BOOLEAN :
          IF ok
          THEN /\ pc' = [pc EXCEPT ![r] = "send_raw_transaction"]
               /\ UNCHANGED <<response, outcome>>
          ELSE PayoutFailed(r, "ConnectionError", "gas price read")
    /\ UNCHANGED tx_hash
    /\ UNCHANGED <<VERIFICATION_URL, record_url>>
    /\ UNCHANGED <<amount, body, verification, request_id, nonce, receipt,
                   recorded, txCount, chainTx>>

\* The pending transactions of other requests that hold r's nonce.
SameNonce(r) ==
    {q \in Reqs \ {r} :
        chainTx[q].status = "pending" /\ chainTx[q].nonce = nonce[r]}

\* The pending transactions whose signed bytes can equal r's: same nonce,
\* same destination, same value; the gas price both read may be the same.
SameBytes(r) ==
    {q \in SameNonce(r) : body[q].args.wallet = body[r].args.wallet}

\* What the RPC endpoint can answer to r's broadcast.  A transaction with
\* a used nonce is refused.  With a pending transaction on the same nonce,
\* r's is refused (underpriced, or already known), or replaces it (higher
\* gas price), or, having the same bytes and reaching a node of the
\* endpoint that has not seen them yet, is accepted under the same hash.
SendResults(r) ==
    {"network_error"}
    \cup (IF nonce[r] < txCount THEN {"refused"}
          ELSE IF SameNonce(r) = {} THEN {"accepted", "reply_lost"}
          ELSE {"refused", "replaced"}
               \cup (IF SameBytes(r) = {} THEN {} ELSE {"known"}))

\* sign_transaction, then send_raw_transaction.
send_raw_transaction(r) ==
    /\ pc[r] = "send_raw_transaction"
    /\ calls' = [calls EXCEPT ![r].sign = @ + 1, ![r].send = @ + 1]
    /\ \E res \in SendResults(r) :
          /\ chainTx' =
                IF res \in {"accepted", "reply_lost", "replaced"}
                THEN [q \in Reqs |->
                        IF q = r
                        THEN [status |-> "pending", nonce |-> nonce[r]]
                        ELSE IF q \in SameNonce(r)
                        THEN [chainTx[q] EXCEPT !.status = "dropped"]
                        ELSE chainTx[q]]
                ELSE chainTx
          /\ IF res \in {"accepted", "replaced", "known"}
             THEN /\ tx_hash' =
                        [tx_hash EXCEPT ![r] =
                            IF res = "known"
                            THEN TxHash(CHOOSE q \in SameBytes(r) : TRUE,
                                        nonce[r])
                            ELSE TxHash(r, nonce[r])]
                  /\ pc' = [pc EXCEPT ![r] = "wait_for_transaction_receipt"]
                  /\ UNCHANGED <<response, outcome>>
             ELSE /\ PayoutFailed(r, "ConnectionError", "broadcast")
                  /\ UNCHANGED tx_hash
    /\ UNCHANGED <<VERIFICATION_URL, record_url>>
    /\ UNCHANGED <<amount, body, verification, request_id, nonce, receipt,
                   recorded, txCount>>

\* The chain mines r's pending transaction when its nonce is next.
Mine(r) ==
    /\ chainTx[r].status = "pending"
    /\ chainTx[r].nonce = txCount
    /\ \E st \in {"success", "reverted"} :
          chainTx' = [chainTx EXCEPT ![r].status = st]
    /\ txCount' = txCount + 1
    /\ UNCHANGED tx_hash
    /\ UNCHANGED <<VERIFICATION_URL, record_url>>
    /\ UNCHANGED <<amount, body, pc, verification, request_id, nonce,
                   receipt, recorded, calls, outcome, response>>

ReceiptStatusAlwaysOne(st) == 1

\* The receipt's status member.
ReceiptStatus(st) == IF st = "success" THEN 1 ELSE 0

\* `if github_user_id:`
HasUserId(v) == v.github_user_id # 0

\* The transaction on the chain that r's tx_hash names.
Transaction(r) == chainTx[FirstSender(tx_hash[r])]

WaitResultsUntilMined(r) ==
    IF Transaction(r).status \in {"success", "reverted"}
    THEN {"receipt"} ELSE {}

\* The receipt wait returns a receipt once the transaction is mined; it can
\* raise at any time (time-out of the client, connection error).
WaitResults(r) ==
    {"raised"}
    \cup (IF Transaction(r).status \in {"success", "reverted"}
          THEN {"receipt"} ELSE {})

\* wait_for_transaction_receipt, the status check, and the handler up to
\* the record_payout call or the response.
wait_for_transaction_receipt(r) ==
    /\ pc[r] = "wait_for_transaction_receipt"
    /\ \E res \in WaitResults(r) :
          IF res = "raised"
          THEN /\ PayoutFailed(r, "TimeExhausted", "receipt wait")
               /\ calls' = [calls EXCEPT ![r].wait = @ + 1]
               /\ UNCHANGED <<receipt, recorded>>
          ELSE LET status == ReceiptStatus(Transaction(r).status)
               IN  /\ receipt' = [receipt EXCEPT ![r] = status]
                   /\ IF ReceiptFailed(status)
                      THEN /\ PayoutFailed(r, "RuntimeError",
                                           "On-chain transfer failed")
                           /\ calls' = [calls EXCEPT ![r].wait = @ + 1]
                           /\ UNCHANGED recorded
                      ELSE IF HasUserId(verification[r])
                      THEN /\ calls' = [calls EXCEPT ![r].wait = @ + 1,
                                                     ![r].record = @ + 1]
                           /\ pc' = [pc EXCEPT ![r] = "record_payout"]
                           /\ UNCHANGED <<response, outcome, recorded>>
                      ELSE /\ Approved(r)
                           /\ calls' = [calls EXCEPT ![r].wait = @ + 1]
                           /\ recorded' = [recorded EXCEPT ![r] = "skipped"]
    /\ UNCHANGED tx_hash
    /\ UNCHANGED <<VERIFICATION_URL, record_url>>
    /\ UNCHANGED <<amount, body, verification, request_id, nonce, txCount,
                   chainTx>>

(***************************************************************************)
(* Verification Client: record_payout                                      *)
(***************************************************************************)
McpRecordOutcomeStrict(ok) == IF ok THEN "return" ELSE "raise"

\* process_tbnb_request: try: await record_payout(...) except Exception: print
McpRecordOutcome(ok) == "return"

RestRecordOutcomeStrict(ok) == IF ok THEN "return" ELSE "raise"

\* request_tbnb: try: await record_payout(...) except Exception: print
RestRecordOutcome(ok) == "return"

\* The record-payout call ends; the handler runs on to its response.
record_payout(r) ==
    /\ pc[r] = "record_payout"
    /\ \E ok \in BOOLEAN :
          LET after == IF body[r].path = "mcp" THEN McpRecordOutcome(ok)
                       ELSE RestRecordOutcome(ok)
          IN  /\ recorded' =
                     [recorded EXCEPT ![r] = IF ok THEN "ok" ELSE "failed"]
              /\ IF after = "return"
                 THEN Approved(r)
                 ELSE PayoutFailed(r, "HTTPError", "record_payout raised")
    /\ record_url' =
          [record_url EXCEPT ![r] = RecordPayoutUrl(VERIFICATION_URL)]
    /\ UNCHANGED <<VERIFICATION_URL, tx_hash>>
    /\ UNCHANGED <<amount, body, verification, request_id, nonce, receipt,
                   calls, txCount, chainTx>>

(***************************************************************************)
(* Specifications                                                          *)
(***************************************************************************)
Next ==
    \/ \E r \in Reqs : mcp_call_tool(r)
    \/ \E r \in Reqs : mcp_list_tools(r)
    \/ \E r \in Reqs : request_tbnb(r)
    \/ \E r \in Reqs : verify_wallet(r)
    \/ \E r \in Reqs : get_transaction_count(r)
    \/ \E r \in Reqs : gas_price(r)
    \/ \E r \in Reqs : send_raw_transaction(r)
    \/ \E r \in Reqs : Mine(r)
    \/ \E r \in Reqs : wait_for_transaction_receipt(r)
    \/ \E r \in Reqs : record_payout(r)

Spec == Init /\ [][Next]_vars

SpecGateway == InitGateway /\ [][Next]_vars

\* One well-formed request, under any configured verification URL.
InitAnyUrl ==
    InitConfigured({[r \in Reqs |-> IF r = 1 THEN b ELSE NoBody] :
                        b \in CoreBodies}, Bases)

SpecAnyUrl == InitAnyUrl /\ [][Next]_vars

\* The same request fields sent to both endpoints.
McpForm(a) ==
    [path |-> "mcp", kind |-> "object", method |-> "tools/call",
     envOk |-> TRUE, where |-> "params", name |-> "issue_tbnb", args |-> a]

RestForm(a) ==
    [path |-> "rest", kind |-> "object", method |-> "absent", envOk |-> TRUE,
     where |-> "top", name |-> "absent", args |-> a]

\* A tools/call and, next to it, the direct form of the same fields or a
\* tools listing; further requests are listings.
BothForms ==
    {[r \in Reqs |-> IF r = 1 THEN McpForm(a)
                     ELSE IF r = 2 THEN second
                     ELSE ListRequest] :
        <<a, second>> \in
            {<<x, y>> \in (Arguments \ {NoArgs, NullArgs})
                            \X (RestBodies \cup {ListRequest}) :
                y.path = "rest" => y.args = x}}

InitBothForms == InitWith(BothForms)

\* A tools/call in flight next to one further request of any endpoint;
\* requests beyond these two are listings.
InitResponsive ==
    InitWith({bs \in InFlight :
                 /\ bs[1].path = "mcp"
                 /\ \A r \in Reqs : r > 2 => bs[r] = ListRequest})

\* Every await of a task ends: the event loop runs a task that can go on,
\* and each call to the verification authority or to the chain client
\* returns or raises.  Nothing is assumed about when the chain mines, nor
\* about when a receipt wait ends.
CallsReturn ==
    \A r \in Reqs :
        /\ WF_vars(mcp_call_tool(r))
        /\ WF_vars(mcp_list_tools(r))
        /\ WF_vars(request_tbnb(r))
        /\ WF_vars(verify_wallet(r))
        /\ WF_vars(get_transaction_count(r))
        /\ WF_vars(gas_price(r))
        /\ WF_vars(send_raw_transaction(r))
        /\ WF_vars(record_payout(r))

SpecResponsive == InitResponsive /\ [][Next]_vars /\ CallsReturn

SpecBothForms == InitBothForms /\ [][Next]_vars


(***************************************************************************)
(* Properties                                                              *)
(***************************************************************************)
NoChainCalls(r) ==
    /\ calls[r].nonce = 0
    /\ calls[r].gas = 0
    /\ calls[r].sign = 0
    /\ calls[r].send = 0
    /\ calls[r].wait = 0
    /\ chainTx[r] = NoTx

IsApproved(r) ==
    response[r].status = "approved" \/ response[r].tx_hash # NoHash

\* C1: on both paths a response that says "approved" or carries a tx_hash
\* exists only if _send_tbnb observed a receipt with status 1 for the
\* transaction this request broadcast; a receipt with another status never
\* gives an approved response.
C1_ApprovedOnlyAfterSuccessReceipt ==
    \A r \in Reqs :
        /\ IsApproved(r) =>
              /\ receipt[r] = 1
              /\ calls[r].send = 1
              /\ tx_hash[r] # NoHash
              /\ chainTx[tx_hash[r][1]] =
                    [status |-> "success", nonce |-> nonce[r]]
              /\ response[r].tx_hash = tx_hash[r]
        /\ (receipt[r] # NoReceipt /\ receipt[r] # 1) => ~IsApproved(r)

C1_Witness ==
    \E r, q \in Reqs :
        /\ body[r].path = "mcp" /\ body[q].path = "rest"
        /\ pc[r] = "done" /\ pc[q] = "done"
        /\ IsApproved(q) /\ receipt[q] = 1
        /\ receipt[r] = 0 /\ chainTx[r].status = "reverted"
        /\ response[r].code = SERVER_ERROR

\* C2: when the verification response has verified false or absent,
\* process_tbnb_request ends in Rejected with the authority's reason, no
\* request_id is minted, the Transaction Engine is not invoked and
\* record_payout is not called.
C2_NotVerifiedIsRejectedWithoutEffects ==
    \A r \in Reqs :
        ( /\ body[r].path = "mcp"
          /\ calls[r].verify > 0
          /\ pc[r] # "verify_wallet"
          /\ verification[r].fault = "none"
          /\ verification[r].verified \in {"false", "absent"} )
        => /\ pc[r] = "done"
           /\ outcome[r] = "Rejected"
           /\ response[r].kind = "result"
           /\ response[r].isError = "true"
           /\ response[r].data = "Verification failed"
           /\ (verification[r].reason # "absent"
                 => response[r].reason = verification[r].reason)
           /\ request_id[r] = NoId
           /\ NoChainCalls(r)
           /\ calls[r].record = 0

C2_Witness ==
    \E r \in Reqs :
        /\ body[r].path = "mcp"
        /\ pc[r] = "done"
        /\ verification[r].verified = "false"
        /\ verification[r].reason = "account too new"
        /\ response[r].reason = "account too new"
        /\ outcome[r] = "Rejected"

C4_AtMostOneBroadcast ==
    \A r \in Reqs :
        /\ calls[r].send <= 1
        /\ calls[r].sign <= 1
        /\ calls[r].nonce <= 1
        /\ calls[r].wait <= 1
        /\ outcome[r] = "Failed" => pc[r] = "done"

C4_Witness ==
    \E r, q \in Reqs :
        /\ r # q
        /\ outcome[r] = "Failed" /\ calls[r].send = 1 /\ calls[r].wait = 1
        /\ receipt[r] = NoReceipt
        /\ outcome[q] = "Failed" /\ calls[q].send = 1 /\ calls[q].wait = 0

\* C5: once verification succeeded and _send_tbnb returned a confirmed
\* hash, the outcome is Approved with that hash on both paths, whether
\* record_payout succeeded, failed or was skipped.
C5_BookkeepingNeverChangesApproval ==
    \A r \in Reqs :
        receipt[r] = 1 =>
            /\ pc[r] \in {"record_payout", "done"}
            /\ pc[r] = "done" =>
                  /\ outcome[r] = "Approved"
                  /\ response[r].status = "approved"
                  /\ response[r].tx_hash = tx_hash[r]
                  /\ tx_hash[r] # NoHash
                  /\ response[r].kind \in {"result", "rest"}
                  /\ response[r].kind = "result" => response[r].isError = "false"
                  /\ response[r].kind = "rest" => response[r].http = HTTP_OK
                  /\ recorded[r] \in {"ok", "failed", "skipped"}

C5_Witness ==
    \E r, q \in Reqs :
        /\ body[r].path = "mcp" /\ body[q].path = "rest"
        /\ recorded[r] = "failed" /\ recorded[q] = "failed"
        /\ outcome[r] = "Approved" /\ outcome[q] = "Approved"


\* C6: when the verification call yields no usable verdict (transport
\* error, time-out, non-success HTTP status, undecodable body) the
\* tools/call response is the JSON-RPC error -32000, never a result with
\* isError true and never Approved, and nothing is broadcast.
C6_VerifyFaultIsExecutionFailure ==
    \A r \in Reqs :
        ( /\ body[r].path = "mcp"
          /\ pc[r] = "done"
          /\ verification[r].fault # "none" )
        => /\ response[r].kind = "error"
           /\ response[r].code = SERVER_ERROR
           /\ ~IsApproved(r)
           /\ NoChainCalls(r)

\* C7: every validation error (missing required arguments, malformed
\* wallet_address, configured amount not strictly positive) is reported by
\* tools/call as a result with isError true and causes no call to the
\* verification authority and no chain interaction.
C7_ValidationErrorIsRejectionWithoutEffects ==
    \A r \in Reqs :
        ( /\ body[r].path = "mcp"
          /\ Dispatch(body[r]).route = "process"
          /\ body[r].args.kind # "null"
          /\ \/ body[r].args.wallet \in {"absent", "empty", "bad"}
             \/ body[r].args.github \in {"absent", "empty"}
             \/ to_wei(amount) <= 0 )
        => /\ calls[r].verify = 0
           /\ NoChainCalls(r)
           /\ pc[r] = "done" =>
                 /\ response[r].kind = "result"
                 /\ response[r].isError = "true"

\* C8: on tools/call the three orchestrator outcomes have three exclusive
\* response shapes: Approved is a result with isError false, Rejected is a
\* result with isError true and no error member, Failed is the JSON-RPC
\* error -32000 with no result.
C8_OutcomeShapes ==
    \A r \in Reqs :
        (body[r].path = "mcp" /\ pc[r] = "done") =>
            /\ outcome[r] = "Approved" =>
                  /\ response[r].kind = "result"
                  /\ response[r].isError = "false"
            /\ outcome[r] = "Rejected" =>
                  /\ response[r].kind = "result"
                  /\ response[r].isError = "true"
                  /\ response[r].code = 0
            /\ outcome[r] = "Failed" =>
                  /\ response[r].kind = "error"
                  /\ response[r].code = SERVER_ERROR
                  /\ response[r].isError = "none"

C8_Witness ==
    \E r \in Reqs :
        /\ body[r].path = "mcp"
        /\ pc[r] = "done"
        /\ outcome[r] = "Failed"
        /\ body[r].args.wallet = "good"
        /\ to_wei(amount) <= 0
        /\ response[r].code = SERVER_ERROR

\* C9 as claimed: a body that is valid JSON without a `method` member gets
\* a protocol-level error and process_tbnb_request is never invoked for it.
C9_NoMethodNeverBusiness ==
    \A r \in Reqs :
        ( /\ body[r].path = "mcp"
          /\ body[r].kind \in {"object", "nonobject"}
          /\ body[r].method = "absent" )
        => /\ calls[r] = NoCalls
           /\ pc[r] = "done" => response[r].kind = "error"

\* C9 as amended: a body that is valid JSON without a `method` member and
\* without the top-level name issue_tbnb gets a protocol-level error
\* (-32700 when it is no object, -32602 when it names no tool, -32601 when
\* it names another tool) and process_tbnb_request is never invoked.
C9_NoMethodNoLegacyNameNeverBusiness ==
    \A r \in Reqs :
        ( /\ body[r].path = "mcp"
          /\ body[r].kind \in {"object", "nonobject"}
          /\ body[r].method = "absent"
          /\ ~(body[r].where = "top" /\ body[r].name = "issue_tbnb") )
        => /\ outcome[r] = "none"
           /\ calls[r] = NoCalls
           /\ pc[r] = "done" =>
                 /\ response[r].kind = "error"
                 /\ response[r].code =
                       IF body[r].kind = "nonobject" THEN PARSE_ERROR
                       ELSE IF body[r].where = "top"
                               /\ body[r].name = "other_tool"
                       THEN METHOD_NOT_FOUND
                       ELSE INVALID_PARAMS

C9_Witness ==
    \E r \in Reqs :
        /\ body[r].path = "mcp"
        /\ body[r].kind = "object"
        /\ body[r].method = "absent"
        /\ body[r].where = "top"
        /\ body[r].name = "other_tool"
        /\ body[r].args.kind = "dict"
        /\ pc[r] = "done"
        /\ response[r].code = METHOD_NOT_FOUND

\* The tool name the endpoint reads is another tool's: params.name of an
\* envelope that validates with method tools/call, the top-level name of
\* a body that does not validate as an envelope.
ReadsOtherTool(b) ==
    /\ b.name = "other_tool"
    /\ IF b.method # "absent" /\ b.envOk
       THEN b.method = "tools/call" /\ b.where = "params"
       ELSE b.where = "top"

\* C10 as claimed: a request whose method is not tools/call, or whose tool
\* name is not issue_tbnb, gets the error -32601 and never reaches
\* verify_wallet, initiate_payout or record_payout.
C10_UnknownMethodOrToolNotFound ==
    \A r \in Reqs :
        ( /\ body[r].path = "mcp"
          /\ body[r].kind = "object"
          /\ \/ body[r].method = "tools/list"
             \/ ReadsOtherTool(body[r]) )
        => /\ calls[r] = NoCalls
           /\ outcome[r] = "none"
           /\ pc[r] = "done" =>
                 /\ response[r].kind = "error"
                 /\ response[r].code = METHOD_NOT_FOUND

\* C10 as amended: a request that validates as a JSON-RPC envelope with a
\* method other than tools/call, or whose tool name as the endpoint reads
\* it is non-empty and not issue_tbnb, gets the error -32601 and never
\* reaches verify_wallet, initiate_payout or record_payout.
C10_ValidEnvelopeUnknownMethodOrNamedOtherTool ==
    \A r \in Reqs :
        ( /\ body[r].path = "mcp"
          /\ body[r].kind = "object"
          /\ \/ body[r].method = "tools/list" /\ body[r].envOk
             \/ ReadsOtherTool(body[r]) )
        => /\ calls[r] = NoCalls
           /\ chainTx[r] = NoTx
           /\ outcome[r] = "none"
           /\ pc[r] = "done" =>
                 /\ response[r].kind = "error"
                 /\ response[r].code = METHOD_NOT_FOUND

C10_Witness ==
    \E r \in Reqs :
        /\ body[r].path = "mcp"
        /\ body[r].method = "tools/list"
        /\ body[r].envOk
        /\ body[r].where = "params"
        /\ body[r].name = "issue_tbnb"
        /\ body[r].args.kind = "dict"
        /\ body[r].args.wallet = "good"
        /\ body[r].args.github = "good"
        /\ pc[r] = "done"
        /\ response[r].code = METHOD_NOT_FOUND


\* C11 as claimed: on the tools-list and the tools-call endpoint a body
\* that cannot be parsed gives the parse error -32700 with a null id, and
\* nothing else.
C11_UnparseableIsParseErrorEverywhere ==
    \A r \in Reqs :
        ( /\ body[r].path \in {"mcp", "list"}
          /\ body[r].kind = "unparseable" )
        => /\ calls[r] = NoCalls
           /\ outcome[r] = "none"
           /\ pc[r] = "done" =>
                 /\ response[r].kind = "error"
                 /\ response[r].code = PARSE_ERROR
                 /\ response[r].id = "None"

\* C11 as amended: on the tools-call endpoint a body that cannot be parsed
\* gives the parse error -32700 with a null id, and nothing else; on the
\* tools-list endpoint it gives the bare tools list with no error member.
C11_UnparseableIsParseErrorOnCallOnly ==
    \A r \in Reqs :
        ( /\ body[r].path \in {"mcp", "list"}
          /\ body[r].kind = "unparseable" )
        => /\ calls[r] = NoCalls
           /\ chainTx[r] = NoTx
           /\ outcome[r] = "none"
           /\ (pc[r] = "done" /\ body[r].path = "mcp") =>
                 /\ response[r].kind = "error"
                 /\ response[r].code = PARSE_ERROR
                 /\ response[r].id = "None"
           /\ (pc[r] = "done" /\ body[r].path = "list") =>
                 /\ response[r].kind = "tools"
                 /\ response[r].code = 0
                 /\ response[r].http = HTTP_OK

C11_Witness ==
    \E r \in Reqs :
        /\ body[r].path = "mcp"
        /\ body[r].kind = "unparseable"
        /\ pc[r] = "done"
        /\ response[r].code = PARSE_ERROR
        /\ response[r].id = "None"


\* C12: on the REST endpoint a verdict of not verified gives HTTP 403 with
\* no chain call and no broadcast; a verification that cannot be obtained
\* and every failure of the payout give HTTP 500; a 200 response exists
\* only with status approved and the hash of a transaction whose receipt
\* had status 1.
C12_RestStatusCodes ==
    \A r \in Reqs :
        (body[r].path = "rest" /\ pc[r] = "done") =>
            /\ ( /\ calls[r].verify > 0
                 /\ verification[r].fault = "none"
                 /\ verification[r].verified \in {"false", "absent"} )
               => /\ response[r].http = HTTP_FORBIDDEN
                  /\ NoChainCalls(r)
                  /\ tx_hash[r] = NoHash
            /\ (verification[r].fault # "none" \/ outcome[r] = "Failed")
               => /\ response[r].http = HTTP_SERVER_ERROR
                  /\ response[r].status = "none"
                  /\ response[r].tx_hash = NoHash
            /\ response[r].http = HTTP_OK
               => /\ response[r].status = "approved"
                  /\ response[r].tx_hash = tx_hash[r]
                  /\ tx_hash[r] # NoHash
                  /\ receipt[r] = 1
                  /\ chainTx[tx_hash[r][1]].status = "success"

C12_Witness ==
    \E r \in Reqs :
        /\ body[r].path = "rest"
        /\ pc[r] = "done"
        /\ outcome[r] = "Failed"
        /\ receipt[r] = 0
        /\ response[r].http = HTTP_SERVER_ERROR


\* The class of a response: approved, rejected (isError true, 403), failed
\* (-32000, 500), or something else.
ResponseClass(resp) ==
    CASE resp.kind = "result" /\ resp.isError = "false" -> "approved"
      [] resp.kind = "result" /\ resp.isError = "true" -> "rejected"
      [] resp.kind = "error" /\ resp.code = SERVER_ERROR -> "failed"
      [] resp.kind = "rest" /\ resp.http = HTTP_OK -> "approved"
      [] resp.kind = "rest" /\ resp.http = HTTP_FORBIDDEN -> "rejected"
      [] resp.kind = "rest" /\ resp.http = HTTP_SERVER_ERROR -> "failed"
      [] OTHER -> "other"

\* C13: a tools/call and a direct REST request with the same fields
\* (wallet_address and github_username not empty, builder_id given or not),
\* both answered, have both called the verification authority or both not;
\* when they were given the same verification and made the same later
\* observations (receipt, record_payout result) they made the same
\* external calls and their responses are of the same class.
C13_RestAndToolCallAgree ==
    \A r, q \in Reqs :
        ( /\ body[r].path = "mcp"
          /\ body[q].path = "rest"
          /\ body[r].args = body[q].args
          /\ body[r].args.wallet \notin {"absent", "empty"}
          /\ body[r].args.github \notin {"absent", "empty"}
          /\ pc[r] = "done"
          /\ pc[q] = "done" )
        => /\ calls[r].verify = calls[q].verify
           /\ ( /\ verification[r] = verification[q]
                /\ nonce[r] = NoNonce <=> nonce[q] = NoNonce
                /\ tx_hash[r] = NoHash <=> tx_hash[q] = NoHash
                /\ receipt[r] = receipt[q]
                /\ recorded[r] = recorded[q] )
              => /\ calls[r] = calls[q]
                 /\ ResponseClass(response[r]) = ResponseClass(response[q])


\* The task of r is inside _send_tbnb or past it.
InPayout(r) ==
    pc[r] \in {"_send_tbnb", "gas_price", "send_raw_transaction",
               "wait_for_transaction_receipt", "record_payout"}

\* C14: within one request no chain call (nonce read, gas-price read,
\* broadcast, receipt wait) happens before the one verification call has
\* returned verified true; the chain calls happen in the order nonce, gas
\* price, broadcast, receipt wait; record_payout is sent at most once and
\* only after a receipt with status 1 was observed for the transaction
\* the request broadcast.
C14_EffectsFollowTheStateMachine ==
    \A r \in Reqs :
        /\ calls[r].verify <= 1
        /\ (InPayout(r) \/ ~NoChainCalls(r) \/ calls[r].record > 0)
           => /\ calls[r].verify = 1
              /\ verification[r].fault = "none"
              /\ verification[r].verified = "true"
              /\ request_id[r] # NoId
        /\ calls[r].gas > 0 => calls[r].nonce = 1
        /\ calls[r].send > 0 => calls[r].gas = 1
        /\ (calls[r].wait > 0 \/ pc[r] = "wait_for_transaction_receipt")
           => calls[r].send = 1 /\ tx_hash[r] # NoHash
        /\ calls[r].wait <= 1
        /\ calls[r].record <= 1
        /\ (calls[r].record > 0 \/ pc[r] = "record_payout")
           => /\ calls[r].wait = 1
              /\ receipt[r] = 1
              /\ chainTx[tx_hash[r][1]].status = "success"
        /\ recorded[r] \in {"ok", "failed"} => calls[r].record = 1

C14_Witness ==
    \E r \in Reqs :
        /\ pc[r] = "done"
        /\ calls[r] = [verify |-> 1, nonce |-> 1, gas |-> 1, sign |-> 1,
                       send |-> 1, wait |-> 1, record |-> 1]
        /\ recorded[r] = "ok"
        /\ outcome[r] = "Approved"


\* C15: nothing serializes the Transaction Engine.  While one invocation
\* has read the transaction count and has not broadcast yet, a second
\* invocation that stands before its nonce read can read, and reads the
\* same count; two invocations holding the same nonce, not used up on the
\* chain meanwhile, can both sign and broadcast, and a transaction on the chain carries the nonce its
\* invocation read.
C15_NonceReadNotSerialized ==
    \A r, q \in Reqs :
        /\ ( /\ r # q
             /\ pc[r] \in {"gas_price", "send_raw_transaction"}
             /\ nonce[r] = txCount
             /\ pc[q] = "_send_tbnb"
             /\ body[q].args.wallet = "good"
             /\ amount \div SubWeiPerWei > 0 )
           => ENABLED ( /\ get_transaction_count(q)
                        /\ pc'[q] = "gas_price"
                        /\ nonce'[q] = nonce[r] )
        /\ ( /\ r # q
             /\ pc[r] = "send_raw_transaction"
             /\ pc[q] = "send_raw_transaction"
             /\ nonce[r] = nonce[q]
             /\ nonce[r] = txCount )
           => /\ ENABLED ( /\ send_raw_transaction(r)
                           /\ chainTx'[r].nonce = nonce[q] )
              /\ ENABLED ( /\ send_raw_transaction(q)
                           /\ chainTx'[q].nonce = nonce[r] )
        /\ chainTx[r] # NoTx => chainTx[r].nonce = nonce[r]

\* Two requests have broadcast transactions with the same nonce, and the
\* node took both.
C15_Witness ==
    \E r, q \in Reqs :
        /\ r # q
        /\ calls[r].send = 1
        /\ calls[q].send = 1
        /\ nonce[r] = nonce[q]
        /\ chainTx[r] # NoTx
        /\ chainTx[q] # NoTx
        /\ chainTx[r].nonce = chainTx[q].nonce


\* The Approved responses, and the successfully confirmed transfers.
ApprovedRequests == {r \in Reqs : outcome[r] = "Approved"}

ConfirmedTransfers == {r \in Reqs : chainTx[r].status = "success"}

\* C16: under every interleaving each Approved response reports the hash
\* of a successfully confirmed transfer, no two Approved responses report
\* the same transaction, and there are never more Approved responses than
\* confirmed transfers.
C16_OneConfirmedTransferPerApproval ==
    /\ \A r \in ApprovedRequests :
          /\ response[r].tx_hash # NoHash
          /\ chainTx[response[r].tx_hash[1]].status = "success"
    /\ \A r, q \in ApprovedRequests :
          r # q => response[r].tx_hash # response[q].tx_hash
    /\ Cardinality(ApprovedRequests) <= Cardinality(ConfirmedTransfers)


\* Request r was answered with the execution-failure class.
ExecutionFailure(r) ==
    /\ pc[r] = "done"
    /\ outcome[r] = "Failed"

\* C17: when a request is answered with the execution-failure class
\* (Failed: -32000 or HTTP 500) after its broadcast returned a hash, the
\* transaction of that hash is not confirmed on the chain with success
\* status, then or at any later time.
C17_FailedMeansNoConfirmedTransfer ==
    \A r \in Reqs :
        (ExecutionFailure(r) /\ tx_hash[r] # NoHash) =>
            /\ response[r].kind = "error" => response[r].code = SERVER_ERROR
            /\ response[r].kind = "rest" =>
                  response[r].http = HTTP_SERVER_ERROR
            /\ chainTx[tx_hash[r][1]].status # "success"


\* C18: when the destination is no address or the amount in wei is not
\* strictly positive, _send_tbnb raises before any chain interaction: no
\* nonce read, no gas-price read, nothing signed, nothing broadcast; a
\* request that entered _send_tbnb ends Failed.  The amount is checked on
\* every call.
C18_SendFailsFast ==
    \A r \in Reqs :
        ( /\ body[r].path \in {"mcp", "rest"}
          /\ \/ body[r].args.wallet # "good"
             \/ amount \div SubWeiPerWei <= 0 )
        => /\ NoChainCalls(r)
           /\ nonce[r] = NoNonce
           /\ tx_hash[r] = NoHash
           /\ pc[r] \in {"absent", "received", "verify_wallet", "_send_tbnb",
                          "done"}
           /\ (pc[r] = "done" /\ request_id[r] # NoId)
              => outcome[r] = "Failed"

C18_Witness ==
    \E r \in Reqs :
        /\ body[r].args.wallet = "good"
        /\ amount > 0
        /\ amount \div SubWeiPerWei = 0
        /\ request_id[r] # NoId
        /\ pc[r] = "done"
        /\ outcome[r] = "Failed"
        /\ calls[r].nonce = 0


\* Request r has its response, of one of the three classes.
Terminal(r) ==
    /\ pc[r] = "done"
    /\ ResponseClass(response[r]) \in {"approved", "rejected", "failed"}

\* C19: a response, once given, is never changed and its task takes no
\* further step; and every issue_tbnb request received by tools/call
\* whose own receipt wait returns or raises gets its one response, of the
\* approved, rejected or failed class - whether or not the receipt waits
\* of the other requests ever end.
C19_EveryToolCallIsAnswered ==
    /\ [][\A r \in Reqs :
            pc[r] = "done" =>
                /\ pc'[r] = "done"
                /\ response'[r] = response[r]
                /\ outcome'[r] = outcome[r]]_vars
    /\ \A r \in Reqs :
          WF_vars(wait_for_transaction_receipt(r))
          => ((pc[r] = "received" /\ body[r].path = "mcp") ~> Terminal(r))

\* A tools/call is answered while another request stays in its receipt
\* wait.
C19_Witness ==
    \E r, q \in Reqs :
        /\ body[r].path = "mcp"
        /\ Terminal(r)
        /\ outcome[r] = "Approved"
        /\ pc[q] = "wait_for_transaction_receipt"


\* The configured URL without its last Len(VerifySuffix) characters.
BaseOf(url) == SubSeq(url, 1, Len(url) - Len(VerifySuffix))

\* C20: for every configured URL B + "/verify", record_payout posts to
\* B + "/record-payout", whatever characters B ends with.
C20_RecordUrlReplacesTheSuffix ==
    \A r \in Reqs :
        ( /\ recorded[r] \in {"ok", "failed"}
          /\ VERIFICATION_URL = BaseOf(VERIFICATION_URL) \o VerifySuffix )
        => record_url[r] = BaseOf(VERIFICATION_URL) \o RecordSuffix

====
